---- MODULE Spec2Model ----
(***************************************************************************)
(* Model of packages/bridge-ui-v2/src/libs/bridge/ERC721Bridge.ts.         *)
(*                                                                         *)
(* One invocation of a public method of ERC721Bridge is in progress at a   *)
(* time.  Every await on an external collaborator (wagmi read / simulate / *)
(* write, the canonical-token resolver, the prover, the base class'        *)
(* beforeClaiming) is one action: the call is issued, its result (a value  *)
(* or an error) is drawn nondeterministically, and the code runs on to the *)
(* next await.  The promise of isBridgePaused() is not awaited by the      *)
(* code, so it settles in an action of its own that interleaves freely.    *)
(***************************************************************************)
EXTENDS Integers, Sequences, FiniteSets, TLC

\* ---------------------------------------------------------------- bounds
MaxTokenIds == 2
MaxTokenId == 2
MaxFee == 1
MaxGasLimit == 3

\* ------------------------------------------------- configuration ($config)
\* bridgeService is imported from $config; the values below stand for its
\* fields and only their order and their being positive matter here.
erc721GasLimitThreshold == 2
noERC721TokenDeployedGasLimit == 7
noOwnerGasLimit == 5

\* ------------------------------------------------------------ value sets
ZeroAddress == "0x0000"
VaultAddress == "0xVault"
OtherAddress == "0xOther"
TokenAddress == "0xToken"
CanonicalAddress == "0xCanonical"

NoValue == "<unset>"
NoGas == -1

Spenders == {VaultAddress, OtherAddress}
ApprovedAddresses == {ZeroAddress, VaultAddress, OtherAddress}
Hashes == {"0xaa", "0xbb"}
Wallets == {"undefined", "noAccount", "noChain", "connected"}
MessageStatus == {"NEW", "RETRIABLE", "DONE", "FAILED"}
TokenIdSeqs == UNION {[1..n -> 1..MaxTokenId] : n \in 1..MaxTokenIds}

\* ---------------------------------------------------------------- errors
Err(kind, denied) == [kind |-> kind, denied |-> denied]
NoErr == Err("none", FALSE)
\* errors thrown by the external collaborators; denied: the message holds
\* the text "denied transaction signature"
ExtErrors == {Err("RpcError", d) : d \in BOOLEAN}
WalletNotConnected == Err("Error(Wallet is not connected)", FALSE)
NotImplemented == Err("Error(Not implemented)", FALSE)
NotApprovedError == Err("NotApprovedError", FALSE)
NoApprovalRequiredError == Err("NoApprovalRequiredError", FALSE)
NoCanonicalInfoFoundError == Err("NoCanonicalInfoFoundError", FALSE)

\* `${err}`.includes('denied transaction signature')
Includes(err) == err.denied

\* ------------------------------------------------- outcome of the promise
Pending == [status |-> "pending", kind |-> "none", cause |-> NoErr, value |-> NoValue]
NoOutcome == [status |-> "none", kind |-> "none", cause |-> NoErr, value |-> NoValue]
Fulfilled(v) == [status |-> "fulfilled", kind |-> "none", cause |-> NoErr, value |-> v]
Rejected(kind, cause) == [status |-> "rejected", kind |-> kind, cause |-> cause, value |-> NoValue]
\* an error that leaves the method as it was thrown
RejectRaw(err) == Rejected(err.kind, NoErr)

\* JavaScript truthiness of a string
ToBoolean(v) == v # ""

\* ------------------------------------------------------ transfer descriptor
NoDescriptor == [gasLimit |-> 0, fee |-> 0, tokenIds |-> <<>>]

\* the fee is tested before the deployment status
GasLimitFor_FeeFirst(isTokenAlreadyDeployed, fee) ==
    IF fee > 0 THEN noOwnerGasLimit
    ELSE IF ~isTokenAlreadyDeployed THEN noERC721TokenDeployedGasLimit
    ELSE 0

GasLimitFor(isTokenAlreadyDeployed, fee) ==
    IF ~isTokenAlreadyDeployed THEN noERC721TokenDeployedGasLimit
    ELSE IF fee > 0 THEN noOwnerGasLimit
    ELSE 0

WalletHasAccount(wallet) == wallet \notin {"undefined", "noAccount"}
WalletHasChain(wallet) == wallet = "connected"

PrepareTransaction(a) ==
    [gasLimit |-> GasLimitFor(a.isTokenAlreadyDeployed, a.fee),
     fee |-> a.fee,
     tokenIds |-> a.tokenIds]

\* ------------------------------------------------------ external call log
MkCall(api, fn, gas, value, id, desc, res) ==
    [api |-> api, fn |-> fn, gas |-> gas, value |-> value, id |-> id,
     desc |-> desc, res |-> res]

NoArgs ==
    [token |-> TokenAddress, spender |-> VaultAddress, tokenIds |-> <<1>>,
     wallet |-> "connected", fee |-> 0, isTokenAlreadyDeployed |-> TRUE,
     gasLimit |-> 0]

VARIABLES
    op,              \* the public method being executed, "none" when idle
    pc,              \* the await the invocation is suspended at
    args,            \* the arguments of the invocation
    sendERC721Args,  \* descriptor built by _prepareTransaction
    canonical,       \* canonicalTokenAddress, "null" when no info was found
    requireApproval, \* value returned by requiresApproval()
    messageStatus,   \* status returned by beforeClaiming()
    txHash,          \* hash returned by writeContract
    calls,           \* the external calls issued so far, in order
    outcome,         \* how the promise returned to the caller has settled
    pause,           \* the promise of isBridgePaused(): none, pending, settled
    unhandled        \* error thrown inside the un-awaited .then callback

vars == <<op, pc, args, sendERC721Args, canonical, requireApproval,
          messageStatus, txHash, calls, outcome, pause, unhandled>>

locals == <<sendERC721Args, canonical, requireApproval, messageStatus, txHash>>

Init ==
    /\ op = "none"
    /\ pc = "idle"
    /\ args = NoArgs
    /\ sendERC721Args = NoDescriptor
    /\ canonical = NoValue
    /\ requireApproval = NoValue
    /\ messageStatus = NoValue
    /\ txHash = NoValue
    /\ calls = <<>>
    /\ outcome = NoOutcome
    /\ pause = "none"
    /\ unhandled = "none"

\* ------------------------------------------------------------- helpers
Issue(c) == calls' = Append(calls, c)

Settle(o) ==
    /\ outcome' = o
    /\ pc' = "done"

Start(name, a) ==
    /\ pc = "idle"
    /\ op' = name
    /\ args' = a

\* the handler rethrows what it caught instead of wrapping it
BridgeCheckCatch_Rethrow(err) == RejectRaw(err)

\* catch of the first try block of bridge(): wraps whatever was thrown
BridgeCheckCatch(err) == Rejected("SendERC721Error", err)

\* the handler wraps without testing for the user-rejection text
CatchUserRejected_NoTest(err, kind) == Rejected(kind, err)

\* catch shared by the write try blocks: user rejection, else the wrapper
CatchUserRejected(err, kind) ==
    IF Includes(err) THEN Rejected("UserRejectedRequestError", err)
    ELSE Rejected(kind, err)

BridgeSendCatch(err) == CatchUserRejected(err, "SendERC721Error")
ClaimCatch(err) == CatchUserRejected(err, "ProcessMessageError")
ApproveCatch(err) == CatchUserRejected(err, "ApproveError")

\* the missing-info test is left out
NoInfo_Never(info) == FALSE

\* if (!info) throw new NoCanonicalInfoFoundError(...)
NoInfo(info) == info = "null"

\* every token is taken for a native one
IsNative_Always(canonicalTokenAddress, token) == TRUE

\* canonicalTokenAddress === token
IsNative(canonicalTokenAddress, token) == canonicalTokenAddress = token

\* the test of the approval answer is inverted
NotApprovedCheck_Negated(r) == ~ToBoolean(r)

\* if (requireApproval) throw new NotApprovedError(...)
NotApprovedCheck(r) == ToBoolean(r)

\* if (!requireApproval) throw new NoApprovalRequiredError(...)
NoApprovalRequiredCheck(r) == ~ToBoolean(r)

\* the simulation of bridge() is not wrapped in a try block of its own
SimulateErrorSwallowed_Never(err) == FALSE

\* inner catch of bridge(): console.error(err) and nothing else
SimulateErrorSwallowed(err) == TRUE

\* the placeholder throws like the unimplemented branch of claim()
ReleaseResult_Throws == RejectRaw(NotImplemented)

\* return Promise.resolve('0x' as Hash)
ReleaseResult == Fulfilled("0x")

\* the estimate is made by sending the transaction
EstimateApi_Write == "writeContract"

\* tokenVaultContract.estimateGas.sendToken
EstimateApi == "estimateGas"

\* RETRIABLE is sent down the NEW path
ClaimIsNew_OrRetriable(status) == status \in {"NEW", "RETRIABLE"}

\* messageStatus === MessageStatus.NEW
ClaimIsNew(status) == status = "NEW"

\* the threshold comparison is not strict
ClaimGas_AtThreshold(gasLimit) ==
    IF gasLimit >= erc721GasLimitThreshold THEN gasLimit ELSE NoGas

\* the explicit gas of the processMessage calls, NoGas when none is passed
ClaimGas(gasLimit) ==
    IF gasLimit > erc721GasLimitThreshold THEN gasLimit ELSE NoGas

\* ------------------------------------------------------ requiresApproval
\* Synchronous head of requiresApproval(): isBridgePaused() is called, a
\* .then callback is attached to its promise and the promise is dropped;
\* the method then suspends on getWalletClient.
EnterRequiresApproval ==
    /\ Issue(MkCall("isBridgePaused", "", NoGas, 0, 0, NoDescriptor, "async"))
    /\ pause' = "pending"
    /\ pc' = "ra_getWalletClient"
    /\ outcome' = Pending

\* An exception leaving requiresApproval(), seen by the method that awaits it.
RequiresApprovalThrows(err) ==
    Settle(IF op = "bridge" THEN BridgeCheckCatch(err) ELSE RejectRaw(err))

\* requiresApproval() returned r to the method that awaits it.
RequiresApprovalReturns(r) ==
    /\ requireApproval' = r
    /\ CASE op = "bridge" ->
              IF NotApprovedCheck(r)
              THEN Settle(BridgeCheckCatch(NotApprovedError))
              ELSE /\ pc' = "bridge_simulate"
                   /\ UNCHANGED outcome
         [] op = "approve" ->
              IF NoApprovalRequiredCheck(r)
              THEN Settle(RejectRaw(NoApprovalRequiredError))
              ELSE /\ pc' = "approve_simulate"
                   /\ UNCHANGED outcome
         [] OTHER -> Settle(Fulfilled(r))

RequiresApproval ==
    \E spender \in Spenders, id \in 1..MaxTokenId :
        /\ Start("requiresApproval",
                 [NoArgs EXCEPT !.spender = spender, !.tokenIds = <<id>>])
        /\ EnterRequiresApproval
        /\ UNCHANGED <<locals, unhandled>>

GetWalletClient ==
    /\ pc = "ra_getWalletClient"
    /\ \/ \E e \in ExtErrors :
            /\ Issue(MkCall("getWalletClient", "", NoGas, 0, 0, NoDescriptor,
                            IF e.denied THEN "denied" ELSE "error"))
            /\ RequiresApprovalThrows(e)
       \/ /\ Issue(MkCall("getWalletClient", "", NoGas, 0, 0, NoDescriptor, "ok"))
          /\ pc' = "ra_readContract"
          /\ UNCHANGED outcome
    /\ UNCHANGED <<op, args, locals, pause, unhandled>>

ReadGetApproved ==
    /\ pc = "ra_readContract"
    /\ \/ \E e \in ExtErrors :
            /\ Issue(MkCall("readContract", "getApproved", NoGas, 0,
                            args.tokenIds[1], NoDescriptor,
                            IF e.denied THEN "denied" ELSE "error"))
            /\ RequiresApprovalThrows(e)
            /\ UNCHANGED requireApproval
       \/ \E approved \in ApprovedAddresses :
            /\ Issue(MkCall("readContract", "getApproved", NoGas, 0,
                            args.tokenIds[1], NoDescriptor, approved))
            /\ RequiresApprovalReturns(approved)
    /\ UNCHANGED <<op, args, sendERC721Args, canonical, messageStatus, txHash,
                   pause, unhandled>>

\* The promise of isBridgePaused() settles; the callback throws inside a
\* promise chain nobody awaits, so the error is an unhandled rejection.
PauseSettles ==
    /\ pause = "pending"
    /\ pause' = "settled"
    /\ \E r \in {"false", "true", "error"} :
         unhandled' = CASE r = "true" -> "BridgePausedError"
                        [] r = "error" -> "RpcError"
                        [] OTHER -> "none"
    /\ UNCHANGED <<op, pc, args, locals, calls, outcome>>

\* ----------------------------------------------------------------- bridge
Bridge ==
    \E vault \in Spenders, ids \in TokenIdSeqs, w \in Wallets,
       fee \in 0..MaxFee, deployed \in BOOLEAN :
        /\ Start("bridge",
                 [NoArgs EXCEPT !.spender = vault, !.tokenIds = ids,
                                !.wallet = w, !.fee = fee,
                                !.isTokenAlreadyDeployed = deployed])
        /\ calls' = <<>>
        /\ IF WalletHasAccount(w)
           THEN /\ sendERC721Args' = PrepareTransaction(args')
                /\ pc' = "bridge_getCanonicalInfo"
                /\ outcome' = Pending
           ELSE /\ Settle(RejectRaw(WalletNotConnected))
                /\ UNCHANGED sendERC721Args
        /\ UNCHANGED <<canonical, requireApproval, messageStatus, txHash,
                       pause, unhandled>>

GetCanonicalInfo ==
    /\ pc = "bridge_getCanonicalInfo"
    /\ \/ \E e \in ExtErrors :
            /\ Issue(MkCall("getCanonicalInfoForAddress", "", NoGas, 0, 0,
                            NoDescriptor, IF e.denied THEN "denied" ELSE "error"))
            /\ Settle(BridgeCheckCatch(e))
            /\ UNCHANGED <<canonical, pause>>
       \/ \E info \in {"null", TokenAddress, CanonicalAddress} :
            /\ canonical' = info
            /\ LET c == MkCall("getCanonicalInfoForAddress", "", NoGas, 0, 0,
                               NoDescriptor, info)
               IN  IF NoInfo(info)
                   THEN /\ Issue(c)
                        /\ Settle(BridgeCheckCatch(NoCanonicalInfoFoundError))
                        /\ UNCHANGED pause
                   ELSE IF ~WalletHasChain(args.wallet)
                   THEN /\ Issue(c)
                        /\ Settle(BridgeCheckCatch(WalletNotConnected))
                        /\ UNCHANGED pause
                   ELSE IF IsNative(info, args.token)
                   THEN /\ calls' = calls \o
                              <<c, MkCall("isBridgePaused", "", NoGas, 0, 0,
                                          NoDescriptor, "async")>>
                        /\ pause' = "pending"
                        /\ pc' = "ra_getWalletClient"
                        /\ UNCHANGED outcome
                   ELSE /\ Issue(c)
                        /\ pc' = "bridge_simulate"
                        /\ UNCHANGED <<outcome, pause>>
    /\ UNCHANGED <<op, args, sendERC721Args, requireApproval, messageStatus,
                   txHash, unhandled>>

BridgeSimulate ==
    /\ pc = "bridge_simulate"
    /\ \/ \E e \in ExtErrors :
            /\ Issue(MkCall("simulateContract", "sendToken", NoGas,
                            sendERC721Args.fee, 0, sendERC721Args,
                            IF e.denied THEN "denied" ELSE "error"))
            /\ IF SimulateErrorSwallowed(e)
               THEN /\ pc' = "bridge_write"
                    /\ UNCHANGED outcome
               ELSE Settle(BridgeSendCatch(e))
       \/ /\ Issue(MkCall("simulateContract", "sendToken", NoGas,
                          sendERC721Args.fee, 0, sendERC721Args, "ok"))
          /\ pc' = "bridge_write"
          /\ UNCHANGED outcome
    /\ UNCHANGED <<op, args, locals, pause, unhandled>>

BridgeWrite ==
    /\ pc = "bridge_write"
    /\ \/ \E e \in ExtErrors :
            /\ Issue(MkCall("writeContract", "sendToken", NoGas,
                            sendERC721Args.fee, 0, sendERC721Args,
                            IF e.denied THEN "denied" ELSE "error"))
            /\ Settle(BridgeSendCatch(e))
            /\ UNCHANGED txHash
       \/ \E h \in Hashes :
            /\ Issue(MkCall("writeContract", "sendToken", NoGas,
                            sendERC721Args.fee, 0, sendERC721Args, h))
            /\ txHash' = h
            /\ Settle(Fulfilled(h))
    /\ UNCHANGED <<op, args, sendERC721Args, canonical, requireApproval,
                   messageStatus, pause, unhandled>>

\* ------------------------------------------------------------------ claim
Claim ==
    \E g \in 0..MaxGasLimit :
        /\ Start("claim", [NoArgs EXCEPT !.gasLimit = g])
        /\ pc' = "claim_beforeClaiming"
        /\ outcome' = Pending
        /\ UNCHANGED <<locals, calls, pause, unhandled>>

BeforeClaiming ==
    /\ pc = "claim_beforeClaiming"
    /\ \/ \E e \in ExtErrors :
            /\ Issue(MkCall("beforeClaiming", "", NoGas, 0, 0, NoDescriptor,
                            IF e.denied THEN "denied" ELSE "error"))
            /\ Settle(RejectRaw(e))
            /\ UNCHANGED messageStatus
       \/ \E status \in MessageStatus :
            /\ Issue(MkCall("beforeClaiming", "", NoGas, 0, 0, NoDescriptor, status))
            /\ messageStatus' = status
            /\ IF ClaimIsNew(status)
               THEN /\ pc' = "claim_encodedSignalProof"
                    /\ UNCHANGED outcome
               ELSE Settle(RejectRaw(NotImplemented))
    /\ UNCHANGED <<op, args, sendERC721Args, canonical, requireApproval, txHash,
                   pause, unhandled>>

EncodedSignalProof ==
    /\ pc = "claim_encodedSignalProof"
    /\ \/ \E e \in ExtErrors :
            /\ Issue(MkCall("encodedSignalProof", "", NoGas, 0, 0, NoDescriptor,
                            IF e.denied THEN "denied" ELSE "error"))
            /\ Settle(RejectRaw(e))
       \/ /\ Issue(MkCall("encodedSignalProof", "", NoGas, 0, 0, NoDescriptor, "ok"))
          /\ pc' = "claim_simulate"
          /\ UNCHANGED outcome
    /\ UNCHANGED <<op, args, locals, pause, unhandled>>

\* the simulation of claim() is made best-effort, as the one of bridge() is
ClaimSimulate_BestEffort ==
    /\ pc = "claim_simulate"
    /\ \E res \in {"ok", "error", "denied"} :
         Issue(MkCall("simulateContract", "processMessage",
                      ClaimGas(args.gasLimit), 0, 0, NoDescriptor, res))
    /\ pc' = "claim_write"
    /\ UNCHANGED <<op, args, locals, outcome, pause, unhandled>>

ClaimSimulate ==
    /\ pc = "claim_simulate"
    /\ \/ \E e \in ExtErrors :
            /\ Issue(MkCall("simulateContract", "processMessage",
                            ClaimGas(args.gasLimit), 0, 0, NoDescriptor,
                            IF e.denied THEN "denied" ELSE "error"))
            /\ Settle(ClaimCatch(e))
       \/ /\ Issue(MkCall("simulateContract", "processMessage",
                          ClaimGas(args.gasLimit), 0, 0, NoDescriptor, "ok"))
          /\ pc' = "claim_write"
          /\ UNCHANGED outcome
    /\ UNCHANGED <<op, args, locals, pause, unhandled>>

ClaimWrite ==
    /\ pc = "claim_write"
    /\ \/ \E e \in ExtErrors :
            /\ Issue(MkCall("writeContract", "processMessage",
                            ClaimGas(args.gasLimit), 0, 0, NoDescriptor,
                            IF e.denied THEN "denied" ELSE "error"))
            /\ Settle(ClaimCatch(e))
            /\ UNCHANGED txHash
       \/ \E h \in Hashes :
            /\ Issue(MkCall("writeContract", "processMessage",
                            ClaimGas(args.gasLimit), 0, 0, NoDescriptor, h))
            /\ txHash' = h
            /\ Settle(Fulfilled("0x"))
    /\ UNCHANGED <<op, args, sendERC721Args, canonical, requireApproval,
                   messageStatus, pause, unhandled>>

\* ---------------------------------------------------------------- release
Release ==
    /\ Start("release", NoArgs)
    /\ Settle(ReleaseResult)
    /\ UNCHANGED <<locals, calls, pause, unhandled>>

\* ---------------------------------------------------------------- approve
Approve ==
    \E spender \in Spenders, ids \in TokenIdSeqs, w \in Wallets :
        /\ Start("approve",
                 [NoArgs EXCEPT !.spender = spender, !.tokenIds = ids,
                                !.wallet = w])
        /\ IF WalletHasAccount(w) /\ WalletHasChain(w)
           THEN EnterRequiresApproval
           ELSE /\ Settle(RejectRaw(WalletNotConnected))
                /\ UNCHANGED <<calls, pause>>
        /\ UNCHANGED <<locals, unhandled>>

ApproveSimulate ==
    /\ pc = "approve_simulate"
    /\ \/ \E e \in ExtErrors :
            /\ Issue(MkCall("simulateContract", "approve", NoGas, 0,
                            args.tokenIds[1], NoDescriptor,
                            IF e.denied THEN "denied" ELSE "error"))
            /\ Settle(ApproveCatch(e))
       \/ /\ Issue(MkCall("simulateContract", "approve", NoGas, 0,
                          args.tokenIds[1], NoDescriptor, "ok"))
          /\ pc' = "approve_write"
          /\ UNCHANGED outcome
    /\ UNCHANGED <<op, args, locals, pause, unhandled>>

ApproveWrite ==
    /\ pc = "approve_write"
    /\ \/ \E e \in ExtErrors :
            /\ Issue(MkCall("writeContract", "approve", NoGas, 0,
                            args.tokenIds[1], NoDescriptor,
                            IF e.denied THEN "denied" ELSE "error"))
            /\ Settle(ApproveCatch(e))
            /\ UNCHANGED txHash
       \/ \E h \in Hashes :
            /\ Issue(MkCall("writeContract", "approve", NoGas, 0,
                            args.tokenIds[1], NoDescriptor, h))
            /\ txHash' = h
            /\ Settle(Fulfilled(h))
    /\ UNCHANGED <<op, args, sendERC721Args, canonical, requireApproval,
                   messageStatus, pause, unhandled>>

\* ------------------------------------------------------------ estimateGas
EstimateGas ==
    \E ids \in TokenIdSeqs, w \in Wallets, fee \in 0..MaxFee,
       deployed \in BOOLEAN :
        /\ Start("estimateGas",
                 [NoArgs EXCEPT !.tokenIds = ids, !.wallet = w, !.fee = fee,
                                !.isTokenAlreadyDeployed = deployed])
        /\ Issue(MkCall("isBridgePaused", "", NoGas, 0, 0, NoDescriptor, "async"))
        /\ pause' = "pending"
        /\ IF WalletHasAccount(w)
           THEN /\ sendERC721Args' = PrepareTransaction(args')
                /\ pc' = "estimateGas_sendToken"
                /\ outcome' = Pending
           ELSE /\ Settle(RejectRaw(WalletNotConnected))
                /\ UNCHANGED sendERC721Args
        /\ UNCHANGED <<canonical, requireApproval, messageStatus, txHash,
                       unhandled>>

\* the promise of estimateGas.sendToken is returned, so it settles the
\* promise of estimateGas() whichever way it goes
EstimateGasSendToken ==
    /\ pc = "estimateGas_sendToken"
    /\ \/ \E e \in ExtErrors :
            /\ Issue(MkCall(EstimateApi, "sendToken", NoGas,
                            sendERC721Args.fee, 0, sendERC721Args,
                            IF e.denied THEN "denied" ELSE "error"))
            /\ Settle(RejectRaw(e))
       \/ /\ Issue(MkCall(EstimateApi, "sendToken", NoGas,
                          sendERC721Args.fee, 0, sendERC721Args, "ok"))
          /\ Settle(Fulfilled("estimatedGas"))
    /\ UNCHANGED <<op, args, locals, pause, unhandled>>

\* ------------------------------------------------------------------ caller
\* The caller has seen the promise settle; the next invocation starts from
\* a fresh state (the class keeps no state between calls).
Reset ==
    /\ pc = "done"
    /\ op' = "none"
    /\ pc' = "idle"
    /\ args' = NoArgs
    /\ sendERC721Args' = NoDescriptor
    /\ canonical' = NoValue
    /\ requireApproval' = NoValue
    /\ messageStatus' = NoValue
    /\ txHash' = NoValue
    /\ calls' = <<>>
    /\ outcome' = NoOutcome
    /\ pause' = "none"
    /\ unhandled' = "none"

Next ==
    \/ RequiresApproval
    \/ GetWalletClient
    \/ ReadGetApproved
    \/ PauseSettles
    \/ EstimateGas
    \/ EstimateGasSendToken
    \/ Bridge
    \/ GetCanonicalInfo
    \/ BridgeSimulate
    \/ BridgeWrite
    \/ Claim
    \/ BeforeClaiming
    \/ EncodedSignalProof
    \/ ClaimSimulate
    \/ ClaimWrite
    \/ Release
    \/ Approve
    \/ ApproveSimulate
    \/ ApproveWrite
    \/ Reset

Spec == Init /\ [][Next]_vars

\* =================================================================== claims
Issued(api, fn) == \E i \in DOMAIN calls : calls[i].api = api /\ calls[i].fn = fn
IssuedApi(api) == \E i \in DOMAIN calls : calls[i].api = api
Settled == outcome.status \in {"fulfilled", "rejected"}

\* bridge() resolved the canonical address and it equals the token address
BridgeNative == op = "bridge" /\ canonical = args.token
\* bridge() resolved the canonical address and it differs from the token address
BridgeBridged == op = "bridge" /\ canonical \notin {NoValue, "null", args.token}
\* the approval check came back and its answer says approval is required
ApprovalReportedMissing == requireApproval # NoValue /\ requireApproval # ""

\* C1: in bridge(), for a native token whose approval check reports that
\* approval is missing, the invocation is rejected and no writeContract call
\* has been issued.
C1_NoWriteWhenNotApproved ==
    (BridgeNative /\ ApprovalReportedMissing) =>
        /\ outcome.status = "rejected"
        /\ pc = "done"
        /\ ~IssuedApi("writeContract")

C1_Witness ==
    /\ BridgeNative
    /\ ApprovalReportedMissing
    /\ requireApproval = ZeroAddress
    /\ outcome.status = "rejected"

\* C2 (as stated): in bridge(), for a native token with no existing approval,
\* the error the caller sees is of kind NotApprovedError.
C2_Original ==
    (BridgeNative /\ ApprovalReportedMissing) => outcome.kind = "NotApprovedError"

\* C2 (amended): in bridge(), for a native token with no existing approval,
\* the caller sees SendERC721Error and the cause of that error is the
\* NotApprovedError.
C2_NotApprovedIsCause ==
    (BridgeNative /\ ApprovalReportedMissing) =>
        /\ outcome.kind = "SendERC721Error"
        /\ outcome.cause = NotApprovedError

C2_Witness ==
    /\ BridgeNative
    /\ requireApproval = OtherAddress
    /\ outcome.kind = "SendERC721Error"
    /\ outcome.cause.kind = "NotApprovedError"

\* C3: in bridge(), for a native token whose token id is already approved
\* for the token vault (getApproved returned the vault address), the approval
\* check passes: bridge() is at the simulate or write step or has completed
\* them, and it has not failed with not-approved.
C3_ApprovedTokenProceeds ==
    (BridgeNative /\ requireApproval = args.spender) =>
        /\ outcome.cause # NotApprovedError
        /\ \/ pc \in {"bridge_simulate", "bridge_write"}
           \/ Issued("writeContract", "sendToken")

\* C4: in bridge(), for a bridged token, requiresApproval is never called
\* (no pause check, no wallet-client lookup, no getApproved read) and, the
\* wallet being connected, the flow goes on to simulate and then write.
C4_BridgedSkipsApproval ==
    BridgeBridged =>
        /\ requireApproval = NoValue
        /\ ~IssuedApi("isBridgePaused")
        /\ ~IssuedApi("getWalletClient")
        /\ ~IssuedApi("readContract")
        /\ WalletHasChain(args.wallet) =>
             /\ pc \in {"bridge_simulate", "bridge_write", "done"}
             /\ pc # "bridge_simulate" => Issued("simulateContract", "sendToken")
             /\ pc = "done" => Issued("writeContract", "sendToken")

C4_Witness ==
    /\ BridgeBridged
    /\ pc = "done"
    /\ outcome.status = "fulfilled"
    /\ Issued("simulateContract", "sendToken")
    /\ Issued("writeContract", "sendToken")

\* C5: approve() for a token id that is already approved for the spender
\* (getApproved returned the spender address) is rejected with
\* NoApprovalRequiredError and issues neither a simulate nor a write.
C5_ApproveAlreadyApproved ==
    (op = "approve" /\ requireApproval = args.spender) =>
        /\ outcome.status = "rejected"
        /\ outcome.kind = "NoApprovalRequiredError"
        /\ ~IssuedApi("simulateContract")
        /\ ~IssuedApi("writeContract")

\* C6: the answer of requiresApproval() depends on the spender: read as the
\* boolean its callers take it for, it says "approval required" exactly when
\* the address returned by getApproved is not the spender.
C6_ResultDependsOnSpender ==
    (op = "requiresApproval" /\ outcome.status = "fulfilled") =>
        (ToBoolean(outcome.value) <=> calls[Len(calls)].res # args.spender)

\* C7: in claim() with status NEW, the processMessage simulate and write
\* calls carry an explicit gas equal to message.gasLimit when message.gasLimit
\* is strictly above erc721GasLimitThreshold, and no explicit gas otherwise.
C7_ClaimGasLimit ==
    op = "claim" =>
        \A i \in DOMAIN calls :
            calls[i].fn = "processMessage" =>
                /\ messageStatus = "NEW"
                /\ args.gasLimit > erc721GasLimitThreshold => calls[i].gas = args.gasLimit
                /\ args.gasLimit <= erc721GasLimitThreshold => calls[i].gas = NoGas

C7_Witness ==
    /\ op = "claim"
    /\ args.gasLimit > erc721GasLimitThreshold
    /\ \E i, j \in DOMAIN calls :
         /\ calls[i].api = "simulateContract" /\ calls[i].gas = args.gasLimit
         /\ calls[j].api = "writeContract" /\ calls[j].gas = args.gasLimit

\* C8: claim() whose pre-claim check resolves a status other than NEW is
\* rejected with the not-implemented error and issues no signal-proof fetch,
\* no simulate and no write.
C8_ClaimNotNew ==
    (op = "claim" /\ messageStatus \notin {NoValue, "NEW"}) =>
        /\ outcome = RejectRaw(NotImplemented)
        /\ ~IssuedApi("encodedSignalProof")
        /\ ~IssuedApi("simulateContract")
        /\ ~IssuedApi("writeContract")

C8_Witness ==
    /\ op = "claim"
    /\ messageStatus = "RETRIABLE"
    /\ outcome.status = "rejected"
    /\ outcome.kind = NotImplemented.kind

UserRejectionClassified(c) ==
    \/ c.api = "writeContract"
    \/ c.api = "simulateContract" /\ c.fn \in {"approve", "processMessage"}

C10_EarlyFailureWrapped ==
    (/\ op = "bridge"
     /\ outcome.status = "rejected"
     /\ ~IssuedApi("simulateContract")) =>
        /\ outcome.kind = "SendERC721Error"
        /\ outcome.cause # NoErr

\* indices of the calls of one kind in the call log
CallsTo(api) == {i \in DOMAIN calls : calls[i].api = api}
Failed(c) == c.res \in {"error", "denied"}

\* C11: in bridge(), when the resolver returns no info, bridge() is rejected
\* with NoCanonicalInfoFoundError as the cause and no approval read, no
\* simulateContract and no writeContract call is issued.
C11_NoCanonicalInfo ==
    (op = "bridge" /\ canonical = "null") =>
        /\ outcome = Rejected("SendERC721Error", NoCanonicalInfoFoundError)
        /\ pc = "done"
        /\ CallsTo("readContract") = {}
        /\ CallsTo("simulateContract") = {}
        /\ CallsTo("writeContract") = {}

C11_Witness ==
    /\ op = "bridge"
    /\ canonical = "null"
    /\ outcome.cause.kind = "NoCanonicalInfoFoundError"
    /\ Len(calls) = 1

\* C12: an operation that submitted a write and completed successfully
\* returns the hash the write produced (bridge, approve and claim alike).
C12_ReturnsWriteHash ==
    (/\ op \in {"bridge", "approve", "claim"}
     /\ outcome.status = "fulfilled") =>
        /\ txHash \in Hashes
        /\ outcome.value = txHash

\* C13: in bridge(), once the canonical-info and approval steps have passed
\* (the simulation has been issued), the sendToken write is submitted exactly
\* once whether the simulation succeeded or failed, and bridge() is rejected
\* only when the write itself failed.
C13_SimulationNotFatal ==
    (op = "bridge" /\ CallsTo("simulateContract") # {}) =>
        /\ Cardinality(CallsTo("simulateContract")) = 1
        /\ pc \in {"bridge_write", "done"}
        /\ pc = "bridge_write" =>
             /\ CallsTo("writeContract") = {}
             /\ outcome.status = "pending"
        /\ pc = "done" =>
             /\ Cardinality(CallsTo("writeContract")) = 1
             /\ \A j \in CallsTo("writeContract") :
                  /\ calls[j].fn = "sendToken"
                  /\ outcome.status = "rejected" <=> Failed(calls[j])
                  /\ outcome.status = "fulfilled" <=> ~Failed(calls[j])

C13_Witness ==
    /\ op = "bridge"
    /\ \E i \in CallsTo("simulateContract") : Failed(calls[i])
    /\ Cardinality(CallsTo("writeContract")) = 1
    /\ outcome.status = "fulfilled"

\* C14: in approve() and in claim(), a write is submitted only after the
\* simulation of the same call has succeeded in that invocation (for claim(),
\* after the signal proof was fetched before it); after a failed simulation
\* no write is submitted and the operation is rejected.
C14_WriteAfterSimulation ==
    op \in {"approve", "claim"} =>
        /\ \A j \in CallsTo("writeContract") :
             \E i \in CallsTo("simulateContract") :
                /\ i < j
                /\ calls[i].fn = calls[j].fn
                /\ calls[i].res = "ok"
                /\ op = "claim" =>
                     \E k \in CallsTo("encodedSignalProof") :
                        k < i /\ calls[k].res = "ok"
        /\ \A i \in CallsTo("simulateContract") :
             Failed(calls[i]) =>
                /\ CallsTo("writeContract") = {}
                /\ outcome.status = "rejected"

C14_Witness ==
    /\ op = "claim"
    /\ \E i \in CallsTo("simulateContract") : calls[i].res = "ok"
    /\ \E j \in CallsTo("writeContract") : calls[j].res \in Hashes
    /\ outcome.status = "fulfilled"

\* C15: in claim() with status NEW, every failure that is not a user-rejected
\* signature (the signal-proof fetch included) reaches the caller as
\* ProcessMessageError carrying the original error as its cause.
C15_ClaimFailuresWrapped ==
    (/\ op = "claim"
     /\ messageStatus = "NEW"
     /\ outcome.status = "rejected"
     /\ \A i \in DOMAIN calls : calls[i].res # "denied") =>
        /\ outcome.kind = "ProcessMessageError"
        /\ outcome.cause \in ExtErrors

\* C16: the descriptor of every sendToken call (estimateGas, the simulation
\* and the write of bridge()) has the gas limit of the three-way rule, the
\* deployment status taking priority over the fee, carries the fee and the
\* token ids of the arguments, and the fee is attached as the call value.
C16_DescriptorGasLimit ==
    \A i \in DOMAIN calls :
        calls[i].fn = "sendToken" =>
            /\ ~args.isTokenAlreadyDeployed =>
                 calls[i].desc.gasLimit = noERC721TokenDeployedGasLimit
            /\ (args.isTokenAlreadyDeployed /\ args.fee > 0) =>
                 calls[i].desc.gasLimit = noOwnerGasLimit
            /\ (args.isTokenAlreadyDeployed /\ args.fee = 0) =>
                 calls[i].desc.gasLimit = 0
            /\ calls[i].desc.fee = args.fee
            /\ calls[i].desc.tokenIds = args.tokenIds
            /\ calls[i].value = args.fee
            /\ calls[i].desc = sendERC721Args

C16_Witness ==
    /\ op = "bridge"
    /\ ~args.isTokenAlreadyDeployed
    /\ args.fee > 0
    /\ \E i \in CallsTo("simulateContract"), j \in CallsTo("writeContract") :
         /\ calls[i].desc = calls[j].desc
         /\ calls[j].desc.gasLimit = noERC721TokenDeployedGasLimit
         /\ calls[j].value = args.fee

\* C17: when isBridgePaused has resolved to true, the operation that made the
\* pause check is rejected with BridgePausedError and has issued no
\* getApproved read, gas estimate, simulate or write.
C17_PauseGates ==
    (unhandled = "BridgePausedError" /\ Settled) =>
        /\ outcome.status = "rejected"
        /\ outcome.kind = "BridgePausedError"
        /\ CallsTo("readContract") = {}
        /\ CallsTo(EstimateApi) = {}
        /\ CallsTo("simulateContract") = {}
        /\ CallsTo("writeContract") = {}

C19_AtMostOneWrite ==
    /\ Cardinality(CallsTo("writeContract")) <= 1
    /\ op \in {"requiresApproval", "estimateGas", "release"} =>
         CallsTo("writeContract") = {}

C19_Witness ==
    /\ op = "bridge"
    /\ pc = "done"
    /\ outcome.status = "rejected"
    /\ Cardinality(CallsTo("writeContract")) = 1
    /\ \E i \in CallsTo("simulateContract") : Failed(calls[i])

\* C20: release() completes by returning the empty '0x' handle: it is never
\* rejected, issues no call at all and leaves every other piece of state as
\* it was.
C20_ReleasePlaceholder ==
    op = "release" =>
        /\ outcome = Fulfilled("0x")
        /\ pc = "done"
        /\ calls = <<>>
        /\ pause = "none"
        /\ unhandled = "none"
        /\ txHash = NoValue
        /\ sendERC721Args = NoDescriptor

C20_Witness ==
    /\ op = "release"
    /\ outcome.status = "fulfilled"
    /\ outcome.value = "0x"

====
